---- MODULE Spec2Model ----
(***************************************************************************)
(* LossyCounter (src/LossyCounter.py): the cache / flush / prune cycle of  *)
(* Lossy Counting and its query layer, as a state machine.  One engine     *)
(* object; every action is one call of a public method, run to completion. *)
(***************************************************************************)
EXTENDS Integers, Sequences, FiniteSets, TLC

\* ------------------------------------------------------------------ bounds
\* The items of the stream.
Keys == {"a", "b"}
\* Longest chunk handed to one cache() call.
MaxChunk == 2
\* Longest iterable handed to one count() call.
MaxStream == 2
\* Most items submitted to the engine over a run.
MaxTotal == 4

\* ------------------------------------------------------------- arithmetic
\* Python's // : the floor of a / b, for any sign of a and b, b # 0.
FloorDiv(a, b) ==
    IF b > 0
    THEN IF a >= 0 THEN a \div b ELSE -((-a + b - 1) \div b)
    ELSE IF a <= 0 THEN (-a) \div (-b) ELSE -((a + (-b) - 1) \div (-b))

\* A float argument is a fraction num / den with den > 0.
Q(n, d) == [num |-> n, den |-> d]

\* math.ceil(1 / eps), eps # 0.
CeilInv(e) == -FloorDiv(-e.den, e.num)

\* Python's optional arguments: None, or a value.
None == <<>>
Some(v) == <<v>>

\* ------------------------------------------------------------------ state
VARIABLES
    constructed,    \* "ok", or the exception __init__ raised
    eps,            \* self.eps
    w,              \* self.w
    prune_limit,    \* self.prune_limit
    flush_limit,    \* self.flush_limit
    cache_counter,  \* self._cache_counter : item -> count
    cache_total,    \* self._cache_total
    counter,        \* self.counter : item -> count
    error,          \* self.error : item -> error
    total,          \* self.total
    nbucket,        \* self._nbucket
    hist,           \* history of the calls made inside the engine
    true_count,     \* reference tally of every item passed to cache
    lastOp,         \* the last public call and what it was given
    result          \* what the last public call returned or raised

config == <<constructed, eps, w, prune_limit, flush_limit>>
engine == <<cache_counter, cache_total, counter, error, total, nbucket>>
vars == <<constructed, eps, w, prune_limit, flush_limit, cache_counter,
          cache_total, counter, error, total, nbucket, hist, true_count,
          lastOp, result>>

\* Counter(): no key.
EmptyCounter == [k \in {} |-> 0]

\* The mutable fields of the object, with the history riding along.
Self ==
    [cache_counter |-> cache_counter, cache_total |-> cache_total,
     counter |-> counter, error |-> error, total |-> total,
     nbucket |-> nbucket, hist |-> hist]

Become(s) ==
    /\ cache_counter' = s.cache_counter
    /\ cache_total' = s.cache_total
    /\ counter' = s.counter
    /\ error' = s.error
    /\ total' = s.total
    /\ nbucket' = s.nbucket
    /\ hist' = s.hist

\* hist.last    : the method that returned last inside the engine
\* hist.flushed : some flush has run
\* hist.over    : some single flush admitted more than prune_limit new entries
NoHist == [last |-> "init", flushed |-> FALSE, over |-> FALSE]

\* ----------------------------------------------------------------- methods
\* Counter.update(chunk): one more for every element of chunk.
RECURSIVE CounterUpdate(_, _)
CounterUpdate(c, chunk) ==
    IF chunk = <<>> THEN c
    ELSE LET k == Head(chunk)
             c1 == [x \in DOMAIN c \cup {k} |->
                       IF x = k
                       THEN (IF k \in DOMAIN c THEN c[k] + 1 ELSE 1)
                       ELSE c[x]]
         IN  CounterUpdate(c1, Tail(chunk))

\* Bug variants of Prunable: the error left out; the boundary made strict.
PrunableByCount(count, err, bucket) == count <= bucket
PrunableStrict(count, err, bucket) == count + err < bucket

\* prune's test of one entry (lines 239-240).
Prunable(count, err, bucket) == count + err <= bucket

\* Bug variant of PruneOp: the entries deleted from counter only.
PruneOpKeepError(s) ==
    LET keys == {key \in DOMAIN s.counter :
                    Prunable(s.counter[key], s.error[key], s.nbucket)}
    IN  [s EXCEPT !.counter = [k \in DOMAIN s.counter \ keys |-> s.counter[k]],
                  !.hist.last = "prune"]

\* LossyCounter.prune
PruneOp(s) ==
    LET keys == {key \in DOMAIN s.counter :
                    Prunable(s.counter[key], s.error[key], s.nbucket)}
    IN  [s EXCEPT !.counter = [k \in DOMAIN s.counter \ keys |-> s.counter[k]],
                  !.error = [k \in DOMAIN s.error \ keys |-> s.error[k]],
                  !.hist.last = "prune"]

\* Bug variants of Buckets: rounding up; rounding to the nearest; the bucket
\* being filled counted too.
BucketsCeil(n) == -FloorDiv(-n, w)
BucketsNearest(n) == FloorDiv(2 * n + w, 2 * w)
BucketsStarted(n) == FloorDiv(n, w) + 1

\* b of flush: the buckets held by the cache (line 187).
Buckets(n) == FloorDiv(n, w)

\* Bug variants of Admits: the bar one too high; the bar itself admitted.
AdmitsLate(c, b) == c > b + 1
AdmitsAtBar(c, b) == c >= b

\* The admission test of flush, for a key not in the table (line 204).
Admits(c, b) == c > b

\* Bug variant of NewError: the elapsed buckets forgotten.
NewErrorZero(bucket) == 0

\* The error a newly admitted key gets (line 206).
NewError(bucket) == bucket

\* LossyCounter.flush
FlushOp(s) ==
    LET b == Buckets(s.cache_total)
        cc == s.cache_counter
        admitted == {key \in DOMAIN cc \ DOMAIN s.counter : Admits(cc[key], b)}
        counter1 == [key \in DOMAIN s.counter \cup admitted |->
                        IF key \in DOMAIN s.counter
                        THEN (IF key \in DOMAIN cc
                              THEN s.counter[key] + cc[key]
                              ELSE s.counter[key])
                        ELSE cc[key]]
        error1 == [key \in DOMAIN s.error \cup admitted |->
                      IF key \in admitted
                      THEN NewError(s.nbucket)
                      ELSE s.error[key]]
        s1 == [s EXCEPT !.counter = counter1,
                        !.error = error1,
                        !.nbucket = @ + b,
                        !.total = @ + s.cache_total,
                        !.cache_counter = EmptyCounter,
                        !.cache_total = 0,
                        !.hist = [last |-> "flush", flushed |-> TRUE,
                                  over |-> @.over \/
                                      Cardinality(admitted) > prune_limit]]
    IN  IF Cardinality(DOMAIN s1.counter) >= prune_limit
        THEN PruneOp(s1)
        ELSE s1

\* Bug variants of MustFlush: the comparison turned round; made strict.
MustFlushInverted(t) == t <= flush_limit
MustFlushStrict(t) == t > flush_limit

\* cache's test for flushing (line 172).
MustFlush(t) == t >= flush_limit

\* Bug variant of CacheOp: the distinct items of the chunk counted, not its
\* length.
CacheOpDistinct(s, chunk) ==
    LET s1 == [s EXCEPT !.cache_counter = CounterUpdate(@, chunk),
                        !.cache_total = @ + Cardinality({chunk[i] :
                                                i \in 1..Len(chunk)}),
                        !.hist.last = "cache"]
    IN  IF MustFlush(s1.cache_total) THEN FlushOp(s1) ELSE s1

\* LossyCounter.cache
CacheOp(s, chunk) ==
    LET s1 == [s EXCEPT !.cache_counter = CounterUpdate(@, chunk),
                        !.cache_total = @ + Len(chunk),
                        !.hist.last = "cache"]
    IN  IF MustFlush(s1.cache_total) THEN FlushOp(s1) ELSE s1

\* batched(iterable, n), n >= 1: the chunks, in order.
RECURSIVE Batched(_, _)
Batched(iterable, n) ==
    IF iterable = <<>> THEN <<>>
    ELSE IF Len(iterable) <= n THEN <<iterable>>
    ELSE <<SubSeq(iterable, 1, n)>> \o
         Batched(SubSeq(iterable, n + 1, Len(iterable)), n)

RECURSIVE CacheAll(_, _)
CacheAll(s, chunks) ==
    IF chunks = <<>> THEN s
    ELSE CacheAll(CacheOp(s, Head(chunks)), Tail(chunks))

\* The chunk size count() uses.
ChunkSize(chunk_size) ==
    IF chunk_size = None THEN flush_limit ELSE chunk_size[1]

\* Bug variant of CountOp: no prune after the last flush.
CountOpNoPrune(s, iterable, chunk_size) ==
    FlushOp(CacheAll(s, Batched(iterable, ChunkSize(chunk_size))))

\* LossyCounter.count, for a chunk size batched() accepts.
CountOp(s, iterable, chunk_size) ==
    LET s1 == CacheAll(s, Batched(iterable, ChunkSize(chunk_size)))
        s2 == FlushOp(s1)
    IN  IF Cardinality(DOMAIN s2.counter) < prune_limit
        THEN PruneOp(s2)
        ELSE s2

\* ----------------------------------------------------------------- queries
Modes == {"lower", "upper", "median"}

Returned(v) == [raised |-> "none", value |-> v]
Raised(e) == [raised |-> e, value |-> None]

\* Bug variant of Half: the integer division x // 2.
HalfFloor(x) == Q(FloorDiv(x, 2), 1)

\* x / 2, a float.
Half(x) == Q(x, 2)

\* n + q, n an int and q a float.
Plus(n, q) == Q(n * q.den + q.num, q.den)
\* Bug variant of IntGreater: at least, not above.
IntGreaterOrEqual(n, q) == n * q.den >= q.num

\* n > q, n an int or a float, q a float.
IntGreater(n, q) == n * q.den > q.num
FloatGreater(p, q) == p.num * q.den > q.num * p.den

\* LossyCounter.getCounts
GetCountsOp(keys, approx) ==
    IF approx = "lower"
    THEN Returned([key \in keys |->
             IF key \in DOMAIN counter THEN counter[key] ELSE 0])
    ELSE IF approx = "upper"
    THEN Returned([key \in keys |->
             IF key \in DOMAIN counter
             THEN counter[key] + error[key]
             ELSE nbucket])
    ELSE IF approx = "median"
    THEN Returned([key \in keys |->
             IF key \in DOMAIN counter
             THEN Plus(counter[key], Half(error[key]))
             ELSE Half(nbucket)])
    ELSE Raised("NotImplementedError")

\* Bug variant of Resolve: every threshold taken as a fraction of total.
ResolveAlways(threshold) ==
    LET t == IF threshold = None THEN eps ELSE threshold[1]
    IN  Q(t.num * total, t.den)

\* The threshold getFreqItems compares with (lines 328-331).
Resolve(threshold) ==
    LET t == IF threshold = None THEN eps ELSE threshold[1]
    IN  IF t.num < t.den THEN Q(t.num * total, t.den) ELSE t

\* Bug variant of GetFreqItemsOp: an unknown mode taken as 'lower'.
GetFreqItemsOpLenient(threshold, approx) ==
    LET t == Resolve(threshold)
    IN  IF approx = "upper"
        THEN Returned({key \in DOMAIN counter :
                          IntGreater(counter[key] + error[key], t)})
        ELSE IF approx = "median"
        THEN Returned({key \in DOMAIN counter :
                 FloatGreater(Plus(counter[key], Half(error[key])), t)})
        ELSE Returned({key \in DOMAIN counter : IntGreater(counter[key], t)})

\* LossyCounter.getFreqItems
GetFreqItemsOp(threshold, approx) ==
    LET t == Resolve(threshold)
    IN  IF approx = "lower"
        THEN Returned({key \in DOMAIN counter : IntGreater(counter[key], t)})
        ELSE IF approx = "upper"
        THEN Returned({key \in DOMAIN counter :
                          IntGreater(counter[key] + error[key], t)})
        ELSE IF approx = "median"
        THEN Returned({key \in DOMAIN counter :
                 FloatGreater(Plus(counter[key], Half(error[key])), t)})
        ELSE Raised("NotImplementedError")

\* Counter.__getitem__: a missing key reads as 0 and is not inserted.
CounterGet(c, key) == IF key \in DOMAIN c THEN c[key] ELSE 0
\* Bug variant of DictGet: the default forgotten, 0 answered.
DictGetZero(d, key, default) == IF key \in DOMAIN d THEN d[key] ELSE 0

\* dict.get(key, default)
DictGet(d, key, default) == IF key \in DOMAIN d THEN d[key] ELSE default

\* LossyCounter.getCountsAndErrors
GetCountsAndErrorsOp(keys) ==
    Returned([key \in keys |->
        [count |-> CounterGet(counter, key),
         error |-> DictGet(error, key, nbucket)]])

\* LossyCounter.getBounds
GetBoundsOp(keys) ==
    Returned([key \in keys |->
        [lower |-> CounterGet(counter, key),
         upper |-> CounterGet(counter, key) + DictGet(error, key, nbucket)]])

\* Bug variant of CounterRead: a defaultdict, which stores the 0 it answers.
CounterReadInsert(c, keys) ==
    [k \in DOMAIN c \cup keys |-> IF k \in DOMAIN c THEN c[k] ELSE 0]

\* The Counter after self.counter[key] was read for every key of keys:
\* Counter.__missing__ answers 0 and stores nothing.
CounterRead(c, keys) == c

\* ------------------------------------------------------------ construction
\* LossyCounter.__init__(eps, prune_limit, flush_limit)
Construct(e, pl, fl) ==
    /\ eps = e
    /\ IF e.num = 0
       THEN /\ constructed = "ZeroDivisionError"
            /\ w = 0 /\ prune_limit = 0 /\ flush_limit = 0
       ELSE /\ constructed = "ok"
            /\ w = CeilInv(e)
            /\ prune_limit = (IF pl = None THEN 10 * CeilInv(e) ELSE pl[1])
            /\ flush_limit = (IF fl = None THEN 10 * CeilInv(e) ELSE fl[1])
    /\ cache_counter = EmptyCounter
    /\ cache_total = 0
    /\ counter = EmptyCounter
    /\ error = EmptyCounter
    /\ total = 0
    /\ nbucket = 0
    /\ hist = NoHist
    /\ true_count = [k \in Keys |-> 0]
    /\ lastOp = [op |-> "init", arg |-> None, approx |-> ""]
    /\ result = Returned(None)

\* eps in (0, 1]; limits None or at least 1.
EpsValues == {Q(1, 1), Q(1, 2), Q(2, 5)}
LimitValues == {None, Some(1), Some(2)}

Init == \E e \in EpsValues, pl \in LimitValues, fl \in LimitValues :
            Construct(e, pl, fl)

\* Arguments the documentation of __init__ does not allow, next to valid ones.
AnyEpsValues == {Q(1, 2), Q(0, 1), Q(2, 1), Q(-1, 2)}
AnyLimitValues == {None, Some(0), Some(2)}

InitAny == \E e \in AnyEpsValues, pl \in AnyLimitValues, fl \in AnyLimitValues :
               Construct(e, pl, fl)

\* ------------------------------------------------------------------ inputs
RECURSIVE SumOver(_, _)
SumOver(f, S) ==
    IF S = {} THEN 0
    ELSE LET k == CHOOSE x \in S : TRUE IN f[k] + SumOver(f, S \ {k})

\* N: the number of items submitted so far, by the reference tally.
Submitted == SumOver(true_count, Keys)

RECURSIVE Tally(_, _)
Tally(t, chunk) ==
    IF chunk = <<>> THEN t
    ELSE Tally([t EXCEPT ![Head(chunk)] = @ + 1], Tail(chunk))

SeqsUpTo(n) == UNION {[1..m -> Keys] : m \in 0..n}
Chunks == SeqsUpTo(MaxChunk)
Streams == SeqsUpTo(MaxStream)
ChunkSizes == {None} \cup {Some(n) : n \in 0..MaxChunk}
KeySets == SUBSET Keys \ {{}}
Approxes == Modes \cup {"foobar"}
Thresholds == {None, Some(Q(2, 1))}

\* ----------------------------------------------------------------- actions
Cache(chunk) ==
    /\ constructed = "ok"
    /\ Submitted + Len(chunk) <= MaxTotal
    /\ Become(CacheOp(Self, chunk))
    /\ true_count' = Tally(true_count, chunk)
    /\ lastOp' = [op |-> "cache", arg |-> Len(chunk), approx |-> ""]
    /\ result' = Returned(None)
    /\ UNCHANGED config

Flush ==
    /\ constructed = "ok"
    /\ Become(FlushOp(Self))
    /\ lastOp' = [op |-> "flush", arg |-> cache_total, approx |-> ""]
    /\ result' = Returned(None)
    /\ UNCHANGED <<config, true_count>>

Prune ==
    /\ constructed = "ok"
    /\ Become(PruneOp(Self))
    /\ lastOp' = [op |-> "prune",
                  arg |-> Cardinality(DOMAIN counter \ DOMAIN counter'),
                  approx |-> ""]
    /\ result' = Returned(None)
    /\ UNCHANGED <<config, true_count>>

\* batched() raises before the first chunk when the chunk size is below 1.
Count(iterable, chunk_size) ==
    /\ constructed = "ok"
    /\ Submitted + Len(iterable) <= MaxTotal
    /\ lastOp' = [op |-> "count", arg |-> ChunkSize(chunk_size) < 1,
                  approx |-> ""]
    /\ IF ChunkSize(chunk_size) < 1
       THEN /\ result' = Raised("ValueError")
            /\ UNCHANGED <<engine, hist, true_count>>
       ELSE /\ Become(CountOp(Self, iterable, chunk_size))
            /\ true_count' = Tally(true_count, iterable)
            /\ result' = Returned(None)
    /\ UNCHANGED config

GetCounts(keys, approx) ==
    /\ constructed = "ok"
    /\ result' = GetCountsOp(keys, approx)
    /\ lastOp' = [op |-> "getCounts", arg |-> keys, approx |-> approx]
    /\ UNCHANGED <<config, engine, hist, true_count>>

GetFreqItems(threshold, approx) ==
    /\ constructed = "ok"
    /\ result' = GetFreqItemsOp(threshold, approx)
    /\ lastOp' = [op |-> "getFreqItems", arg |-> threshold,
                  approx |-> approx]
    /\ UNCHANGED <<config, engine, hist, true_count>>

GetCountsAndErrors(keys) ==
    /\ constructed = "ok"
    /\ result' = GetCountsAndErrorsOp(keys)
    /\ counter' = CounterRead(counter, keys)
    /\ lastOp' = [op |-> "getCountsAndErrors", arg |-> keys, approx |-> ""]
    /\ UNCHANGED <<config, cache_counter, cache_total, error, total, nbucket,
                   hist, true_count>>

GetBounds(keys) ==
    /\ constructed = "ok"
    /\ result' = GetBoundsOp(keys)
    /\ counter' = CounterRead(counter, keys)
    /\ lastOp' = [op |-> "getBounds", arg |-> keys, approx |-> ""]
    /\ UNCHANGED <<config, cache_counter, cache_total, error, total, nbucket,
                   hist, true_count>>

Next ==
    \/ \E chunk \in Chunks : Cache(chunk)
    \/ Flush
    \/ Prune
    \/ \E iterable \in Streams, chunk_size \in ChunkSizes :
           Count(iterable, chunk_size)
    \/ \E keys \in KeySets, approx \in Approxes : GetCounts(keys, approx)
    \/ \E threshold \in Thresholds, approx \in Approxes :
           GetFreqItems(threshold, approx)
    \/ \E keys \in KeySets : GetCountsAndErrors(keys)
    \/ \E keys \in KeySets : GetBounds(keys)

Spec == Init /\ [][Next]_vars

\* The same engine, built from any arguments a caller may pass.
SpecAny == InitAny /\ [][Next]_vars

\* The engine of the specification's scenario: eps = 0.1, flush_limit = 10.
InitExample == Construct(Q(1, 10), None, Some(10))

\* The engines of Spec and the scenario's.
SpecExample == (Init \/ InitExample) /\ [][Next]_vars

\* ------------------------------------------------------------------ claims
\* What getBounds answers for one key.
Lower(k) == GetBoundsOp({k}).value[k].lower
Upper(k) == GetBoundsOp({k}).value[k].upper
\* The count of k in the batch cache.
Cached(k) == CounterGet(cache_counter, k)
CacheEmpty == cache_counter = EmptyCounter /\ cache_total = 0

\* C1: whenever the batch cache is empty, the exact count of every key lies
\* between the lower and the upper bound getBounds gives: counter[k] <=
\* true_count[k] <= counter[k] + error[k] for a tracked key, and 0 <=
\* true_count[k] <= bucket_id for an untracked one.
C1_BoundSoundnessFlushed ==
    CacheEmpty =>
        \A k \in Keys :
            /\ Lower(k) <= true_count[k]
            /\ true_count[k] <= Upper(k)
            /\ k \in DOMAIN counter =>
                   /\ counter[k] <= true_count[k]
                   /\ true_count[k] <= counter[k] + error[k]
            /\ k \notin DOMAIN counter =>
                   /\ 0 <= true_count[k]
                   /\ true_count[k] <= nbucket

\* C1 witness: the cache is empty, a tracked key is undercounted within its
\* error, and an untracked key was seen.
C1_Witness ==
    /\ CacheEmpty
    /\ \E k \in DOMAIN counter : counter[k] < true_count[k] /\ error[k] > 0
    /\ \E k \in Keys \ DOMAIN counter : true_count[k] > 0

\* C2 as stated: after at least one flush, in every state (items cached since
\* the last flush included), lower(k) <= true_count(k) <= upper(k).
C2_BoundSoundnessEveryPoint ==
    hist.flushed =>
        \A k \in Keys : Lower(k) <= true_count[k] /\ true_count[k] <= Upper(k)

\* C2 amended: after at least one flush, in every state, lower(k) <=
\* true_count(k), and true_count(k) exceeds upper(k) by no more than the
\* count of k cached since the last flush.
C2_BoundSoundnessUpToCache ==
    hist.flushed =>
        \A k \in Keys :
            /\ Lower(k) <= true_count[k]
            /\ true_count[k] - Cached(k) <= Upper(k)

\* C2 witness: after a flush, a key with cached items whose exact count is
\* above its upper bound, and a tracked key with an error.
C2_Witness ==
    /\ hist.flushed
    /\ \E k \in Keys : Cached(k) > 0 /\ true_count[k] > Upper(k)
    /\ \E k \in DOMAIN counter : error[k] > 0

\* C3: whenever the cache is empty (a fresh engine, or a flush, a count or a
\* flushing cache has just emptied it), total is exactly the number of items
\* submitted.
C3_ExactTotal ==
    CacheEmpty => total = Submitted

\* C3 witness: count() returned, every item the bounds allow was submitted,
\* one key was never admitted.
C3_Witness ==
    /\ lastOp.op = "count"
    /\ result.raised = "none"
    /\ CacheEmpty
    /\ total = MaxTotal
    /\ \E k \in Keys \ DOMAIN counter : true_count[k] > 0
    /\ SumOver(counter, DOMAIN counter) < total

\* C4: for every key upper - lower <= bucket_id, and bucket_id * w <= total;
\* a key never seen has lower = 0 and upper <= eps * total.
C4_UncertaintyWithinEps ==
    /\ \A k \in Keys : Upper(k) - Lower(k) <= nbucket
    /\ nbucket * w <= total
    /\ \A k \in Keys :
           true_count[k] = 0 =>
               Lower(k) = 0 /\ Upper(k) * eps.den <= eps.num * total

\* C4 witness: buckets have elapsed, a key is tracked, a key was never seen,
\* and the total is not a whole number of buckets.
C4_Witness ==
    /\ nbucket > 0
    /\ nbucket * w < total
    /\ DOMAIN counter # {}
    /\ \E k \in Keys : true_count[k] = 0 /\ Upper(k) = nbucket

\* What getFreqItems(eps, 'upper') returns.
FreqUpper == GetFreqItemsOp(Some(eps), "upper").value

\* C5: with the cache empty, every key whose exact count is above
\* eps * total is tracked and is returned by getFreqItems(eps, 'upper').
C5_NoFalseNegativesUpper ==
    CacheEmpty =>
        \A k \in Keys :
            true_count[k] * eps.den > eps.num * total =>
                k \in DOMAIN counter /\ k \in FreqUpper

\* C5 witness: a key above eps * total whose tracked count alone is not above
\* it: 'lower' misses it, 'upper' returns it.
C5_Witness ==
    /\ CacheEmpty
    /\ \E k \in DOMAIN counter :
           /\ true_count[k] * eps.den > eps.num * total
           /\ k \in FreqUpper
           /\ k \notin GetFreqItemsOp(Some(eps), "lower").value

\* C6 as stated: right after a prune call the table holds fewer than
\* prune_limit entries, unless some single flush admitted more than
\* prune_limit new entries.
C6_TableSizeBound ==
    (hist.last = "prune" /\ ~hist.over) =>
        Cardinality(DOMAIN counter) < prune_limit

\* C6 amended: right after a prune call every entry left in the table has
\* count + error > bucket_id; the table may still hold prune_limit entries
\* or more.
C6_PruneLeavesLiveEntries ==
    hist.last = "prune" =>
        \A k \in DOMAIN counter : counter[k] + error[k] > nbucket

\* C6 witness: right after a prune call, with no flush having admitted more
\* than prune_limit entries, the table holds prune_limit entries or more.
C6_Witness ==
    /\ hist.last = "prune"
    /\ ~hist.over
    /\ nbucket > 0
    /\ Cardinality(DOMAIN counter) >= prune_limit

\* The arguments section 7 of the specification allows.
ValidConfiguration ==
    /\ 0 < eps.num /\ eps.num <= eps.den
    /\ prune_limit >= 1
    /\ flush_limit >= 1

\* C7: an eps outside (0, 1], or a prune_limit or flush_limit below 1, fails
\* at construction with InvalidConfiguration; so does count() with a chunk
\* size below 1.
C7_InvalidConfigurationRejected ==
    /\ ~ValidConfiguration => constructed = "InvalidConfiguration"
    /\ (lastOp.op = "count" /\ lastOp.arg) =>
           result.raised = "InvalidConfiguration"

\* C8: getCounts and getFreqItems with a mode outside lower, upper, median
\* raise, return nothing and leave the engine as it was.
C8_UnsupportedApproximation ==
    [][(lastOp'.op \in {"getCounts", "getFreqItems"} /\ lastOp'.approx \notin Modes)
          => /\ result'.raised = "NotImplementedError"
             /\ result'.value = None
             /\ UNCHANGED <<engine, hist>>]_vars

\* C8 witness: getFreqItems was called with an unknown mode on a table that
\* has entries, and raised.
C8_Witness ==
    /\ lastOp.op = "getFreqItems"
    /\ lastOp.approx \notin Modes
    /\ result.raised = "NotImplementedError"
    /\ DOMAIN counter # {}
    /\ cache_total > 0

\* C9: cache([]) changes nothing and triggers neither a flush nor a prune.
C9_EmptyBatchNoOp ==
    [][(lastOp'.op = "cache" /\ lastOp'.arg = 0)
          => /\ UNCHANGED engine
             /\ hist'.last = "cache"
             /\ hist'.flushed = hist.flushed]_vars

\* C9 witness: cache([]) was called with items cached and entries in the
\* table that a prune would remove.
C9_Witness ==
    /\ lastOp.op = "cache"
    /\ lastOp.arg = 0
    /\ cache_total > 0
    /\ \E k \in DOMAIN counter : counter[k] + error[k] <= nbucket

QueryOps == {"getCounts", "getFreqItems", "getCountsAndErrors", "getBounds"}

\* C10: the four queries leave the cache, the table and its key set, the
\* errors, bucket_id and total unchanged, whatever the keys asked for.
C10_QueriesReadOnly ==
    [][lastOp'.op \in QueryOps => UNCHANGED <<engine, hist>>]_vars

\* C10 witness: getBounds was asked for a key that is not tracked, next to a
\* tracked one, with items in the cache.
C10_Witness ==
    /\ lastOp.op = "getBounds"
    /\ lastOp.arg \ DOMAIN counter # {}
    /\ lastOp.arg \cap DOMAIN counter # {}
    /\ cache_total > 0

\* What getCounts answers for one key.
Estimate(k, approx) == GetCountsOp({k}, approx).value[k]

\* C11: for every key, tracked or not, twice the 'median' estimate of
\* getCounts is exactly the 'lower' estimate plus the 'upper' one.
C11_MedianConsistency ==
    /\ \A k \in Keys :
           LET m == Estimate(k, "median")
           IN  2 * m.num = m.den * (Estimate(k, "lower") + Estimate(k, "upper"))
    /\ (lastOp.op = "getCounts" /\ lastOp.approx = "median") =>
           \A k \in lastOp.arg :
               2 * result.value[k].num =
                   result.value[k].den * (Lower(k) + Upper(k))

\* C11 witness: getCounts(keys, 'median') answered a half for a tracked key
\* with an odd error, and was asked for an untracked key too.
C11_Witness ==
    /\ lastOp.op = "getCounts"
    /\ lastOp.approx = "median"
    /\ \E k \in lastOp.arg \cap DOMAIN counter :
           /\ error[k] % 2 = 1
           /\ result.value[k] = Q(2 * counter[k] + error[k], 2)
    /\ lastOp.arg \ DOMAIN counter # {}

\* Relative thresholds r < 1.
RelativeThresholds == {Q(1, 4), Q(1, 3), Q(2, 5), Q(1, 2), Q(3, 4)}

\* C12: for every mode and every relative threshold r < 1 with
\* r * total > 1, getFreqItems(r, approx) and getFreqItems(r * total, approx)
\* return the same items.
C12_ThresholdModeAgreement ==
    \A r \in RelativeThresholds, approx \in Modes :
        (r.num < r.den /\ r.num * total > r.den) =>
            GetFreqItemsOp(Some(r), approx).value =
                GetFreqItemsOp(Some(Q(r.num * total, r.den)), approx).value

\* C12 witness: getFreqItems with the relative threshold eps < 1,
\* eps * total > 1, returned some tracked items and not others, the same as
\* with the absolute threshold eps * total.
C12_Witness ==
    /\ lastOp.op = "getFreqItems"
    /\ lastOp.arg = None
    /\ lastOp.approx \in Modes
    /\ eps.num < eps.den
    /\ eps.num * total > eps.den
    /\ result.value # {}
    /\ result.value # DOMAIN counter
    /\ result.value =
           GetFreqItemsOp(Some(Q(eps.num * total, eps.den)), lastOp.approx).value

\* est > t, for the estimate of a mode (a float for 'median', an int
\* otherwise) and a float t.
Exceeds(est, approx, t) ==
    IF approx = "median"
    THEN est.num * t.den > t.num * est.den
    ELSE est * t.den > t.num

\* The threshold as the claim resolves it.
ResolvedThreshold(threshold) ==
    LET t == IF threshold = None THEN eps ELSE threshold[1]
    IN  IF t.num < t.den THEN Q(t.num * total, t.den) ELSE t

AllThresholds == Thresholds \cup {Some(r) : r \in RelativeThresholds}
                     \cup {Some(Q(1, 1)), Some(Q(3, 1))}

\* C13: for every mode and threshold, getFreqItems returns exactly the
\* tracked keys whose getCounts estimate is above the resolved threshold;
\* no untracked key is returned and every returned key was seen at least
\* once.
C13_FreqItemsAgreeWithCounts ==
    \A threshold \in AllThresholds, approx \in Modes :
        LET got == GetFreqItemsOp(threshold, approx).value
        IN  /\ got = {k \in DOMAIN counter :
                         Exceeds(Estimate(k, approx), approx,
                                 ResolvedThreshold(threshold))}
            /\ got \subseteq DOMAIN counter
            /\ \A k \in got : true_count[k] >= 1

\* C13 witness: getFreqItems(2, 'lower') left out a tracked key whose count
\* is exactly 2, a key that 'upper' returns.
C13_Witness ==
    /\ lastOp.op = "getFreqItems"
    /\ lastOp.arg = Some(Q(2, 1))
    /\ lastOp.approx = "lower"
    /\ \E k \in DOMAIN counter \ result.value :
           /\ counter[k] = 2
           /\ k \in GetFreqItemsOp(Some(Q(2, 1)), "upper").value

\* C14: for every key, tracked or not, getCountsAndErrors gives count =
\* lower and error = upper - lower of getCounts, and getBounds gives the
\* lower and upper of getCounts; for an untracked key these are 0,
\* bucket_id, 0 and bucket_id.
C14_PointQueriesAgree ==
    \A k \in Keys :
        LET ce == GetCountsAndErrorsOp({k}).value[k]
            bd == GetBoundsOp({k}).value[k]
            lo == Estimate(k, "lower")
            up == Estimate(k, "upper")
        IN  /\ ce.count = lo
            /\ ce.error = up - lo
            /\ bd.lower = lo
            /\ bd.upper = up
            /\ k \notin DOMAIN counter =>
                   /\ ce = [count |-> 0, error |-> nbucket]
                   /\ bd = [lower |-> 0, upper |-> nbucket]

\* C14 witness: getCountsAndErrors answered for an untracked key after
\* buckets have elapsed, and for a tracked key with an error.
C14_Witness ==
    /\ lastOp.op = "getCountsAndErrors"
    /\ nbucket > 0
    /\ \E k \in lastOp.arg \ DOMAIN counter :
           result.value[k] = [count |-> 0, error |-> nbucket]
    /\ \E k \in lastOp.arg \cap DOMAIN counter : result.value[k].error > 0

\* The batch of the specification's scenario.
ExampleBatch == <<"a", "a", "a", "a", "a", "b", "c", "d", "e", "f">>

\* The scenario: on the fresh engine with eps = 0.1 and flush_limit = 10,
\* cache(ExampleBatch) flushes and leaves bucket_id = 1, a = (5, 0), and
\* b..f untracked with bounds 0 and 1.
C15_Example ==
    (lastOp.op = "init" /\ eps = Q(1, 10) /\ flush_limit = 10) =>
        LET s == CacheOp(Self, ExampleBatch)
        IN  /\ w = 10
            /\ s.hist.flushed
            /\ s.nbucket = 1
            /\ s.total = 10
            /\ s.cache_counter = EmptyCounter /\ s.cache_total = 0
            /\ DOMAIN s.counter = {"a"} /\ DOMAIN s.error = {"a"}
            /\ s.counter["a"] = 5 /\ s.error["a"] = 0
            /\ \A k \in {"b", "c", "d", "e", "f"} :
                   /\ CounterGet(s.counter, k) = 0
                   /\ CounterGet(s.counter, k) + DictGet(s.error, k, s.nbucket) = 1

\* C15: a flush with b = floor(batch_total / w) adds the cached count to
\* every tracked key and leaves its error; inserts an untracked key with
\* cached count above b, with that count and the bucket_id before the flush
\* as error; leaves the other keys untracked; then adds b to bucket_id and
\* batch_total to total and empties the cache.  The prune that closes the
\* flush when the table holds prune_limit entries or more then removes the
\* entries with count + error <= bucket_id.  And the scenario holds.
C15_FlushAdmissionRule ==
    /\ [][lastOp'.op = "flush" =>
            LET b == cache_total \div w
                merged == DOMAIN counter \cup
                          {k \in DOMAIN cache_counter \ DOMAIN counter :
                              cache_counter[k] > b}
                cnt(k) == IF k \in DOMAIN counter
                          THEN counter[k] + Cached(k)
                          ELSE cache_counter[k]
                err(k) == IF k \in DOMAIN counter THEN error[k] ELSE nbucket
                kept == IF Cardinality(merged) >= prune_limit
                        THEN {k \in merged : cnt(k) + err(k) > nbucket + b}
                        ELSE merged
            IN  /\ nbucket' = nbucket + b
                /\ total' = total + cache_total
                /\ cache_counter' = EmptyCounter
                /\ cache_total' = 0
                /\ DOMAIN counter' = kept
                /\ DOMAIN error' = kept
                /\ \A k \in kept : counter'[k] = cnt(k) /\ error'[k] = err(k)
                /\ {k \in DOMAIN cache_counter \ DOMAIN counter :
                       cache_counter[k] <= b} \cap DOMAIN counter' = {}]_vars
    /\ []C15_Example

\* C15 witness: a flush of a non-empty cache has left a key admitted with an
\* error above 0 and a cached key not admitted.
C15_Witness ==
    /\ lastOp.op = "flush"
    /\ lastOp.arg > 0
    /\ \E k \in DOMAIN counter : error[k] > 0 /\ error[k] < nbucket
    /\ \E k \in Keys \ DOMAIN counter : true_count[k] > 0

\* C16 as stated: after every flush, bucket_id = floor(total / w).
C16_BucketClockWholeBuckets ==
    hist.flushed => nbucket = FloorDiv(total, w)

\* C16: a flush or a flushing cache adds floor(batch_total / w) to bucket_id,
\* the remainder of the batch is not carried over; so after every flush
\* 0 <= bucket_id <= floor(total / w), and no step adds more buckets to
\* bucket_id than the items it adds to total hold.
C16_BucketClockAtMostWholeBuckets ==
    /\ [](hist.flushed => (nbucket >= 0 /\ nbucket <= FloorDiv(total, w)))
    /\ [][/\ nbucket' - nbucket <= FloorDiv(total' - total, w)
          /\ lastOp'.op \in {"flush", "cache"} =>
                 nbucket' - nbucket = FloorDiv(total' - total, w)]_vars

\* C16 witness: after flushes that advanced bucket_id, bucket_id is below
\* floor(total / w).
C16_Witness ==
    /\ hist.flushed
    /\ nbucket > 0
    /\ nbucket < FloorDiv(total, w)

\* C17: prune() removes from counter and from error exactly the entries with
\* count + error <= bucket_id, leaves the other entries' count and error,
\* the cache, bucket_id and total unchanged, and a prune() right after a
\* prune() changes nothing.
C17_PruneExactIdempotent ==
    /\ [][lastOp'.op = "prune" =>
            LET kept == {k \in DOMAIN counter :
                            counter[k] + error[k] > nbucket}
            IN  /\ DOMAIN counter' = kept
                /\ DOMAIN error' = kept
                /\ \A k \in kept :
                       counter'[k] = counter[k] /\ error'[k] = error[k]
                /\ UNCHANGED <<cache_counter, cache_total, nbucket, total>>
                /\ lastOp.op = "prune" => UNCHANGED engine]_vars
    /\ [](LET s == PruneOp(Self)
          IN  /\ PruneOp(s).counter = s.counter
              /\ PruneOp(s).error = s.error)

\* C17 witness: a prune() has removed an entry and left another.
C17_Witness ==
    /\ lastOp.op = "prune"
    /\ lastOp.arg > 0
    /\ DOMAIN counter # {}

\* C18: flush_limit >= 1, and cache(batch) flushes exactly when the cached
\* total with the batch added is >= flush_limit; after every call the cached
\* total is below flush_limit, is the sum of the cached counts, and the
\* distinct cached items are fewer than flush_limit.
C18_CacheBelowFlushLimit ==
    /\ [](/\ flush_limit >= 1
          /\ cache_total < flush_limit
          /\ cache_total = SumOver(cache_counter, DOMAIN cache_counter)
          /\ Cardinality(DOMAIN cache_counter) < flush_limit)
    /\ [][lastOp'.op = "cache" =>
            IF cache_total + lastOp'.arg >= flush_limit
            THEN /\ hist'.last \in {"flush", "prune"}
                 /\ cache_total' = 0
                 /\ total' = total + cache_total + lastOp'.arg
            ELSE /\ hist'.last = "cache"
                 /\ cache_total' = cache_total + lastOp'.arg
                 /\ total' = total]_vars

\* C18 witness: after an earlier flush, a cache call has filled the cache to
\* one item below flush_limit without flushing.
C18_Witness ==
    /\ lastOp.op = "cache"
    /\ hist.last = "cache"
    /\ hist.flushed
    /\ total > 0
    /\ cache_total > 0
    /\ cache_total = flush_limit - 1

\* C19: when count() returns, for any chunk size it accepts, the cache is
\* empty and every tracked entry has count + error > bucket_id, whether the
\* table is below prune_limit or not.
C19_CountLeavesFlushedPruned ==
    (lastOp.op = "count" /\ result.raised = "none") =>
        /\ cache_counter = EmptyCounter
        /\ cache_total = 0
        /\ total = Submitted
        /\ \A k \in DOMAIN counter : counter[k] + error[k] > nbucket

\* C19 witness: count() has returned with the table below prune_limit,
\* buckets elapsed, a key tracked and a submitted key not tracked.
C19_Witness ==
    /\ lastOp.op = "count"
    /\ result.raised = "none"
    /\ nbucket > 0
    /\ DOMAIN counter # {}
    /\ Cardinality(DOMAIN counter) < prune_limit
    /\ \E k \in Keys \ DOMAIN counter : true_count[k] > 0

\* C20: flush() with the cache empty leaves the table, the errors, bucket_id,
\* total and the cache unchanged, also when it calls prune; and flush()
\* after flush() changes nothing more.
C20_FlushOnEmptyCacheNoOp ==
    /\ [][(lastOp'.op = "flush" /\ lastOp'.arg = 0) =>
              UNCHANGED engine]_vars
    /\ [](LET s == FlushOp(Self)
              t == FlushOp(s)
          IN  /\ t.counter = s.counter
              /\ t.error = s.error
              /\ t.nbucket = s.nbucket
              /\ t.total = s.total
              /\ t.cache_counter = s.cache_counter
              /\ t.cache_total = s.cache_total)

\* C20 witness: flush() was called with the cache empty on a table of
\* prune_limit entries or more, after buckets had elapsed, and called prune.
C20_Witness ==
    /\ lastOp.op = "flush"
    /\ lastOp.arg = 0
    /\ hist.last = "prune"
    /\ nbucket > 0
    /\ Cardinality(DOMAIN counter) >= prune_limit

====
